---------------------------- MODULE Spec2Model ----------------------------
(***************************************************************************)
(* A model of STEGO (src/stego/stego.py, src/stego/backbones/backbone.py). *)
(*                                                                         *)
(* The module holds one state machine per component.  Each component has   *)
(* its own specification; the variables of the other components stay at    *)
(* their idle values under it.                                             *)
(*                                                                         *)
(*   SpecLoss      ContrastiveCorrelationLoss.forward, statement by        *)
(*                 statement, on tensors that carry where each entry came  *)
(*                 from (which map, which image, which coordinate draw)    *)
(*   SpecHelper    ContrastiveCorrelationLoss.helper on numbers            *)
(*   SpecCluster   ClusterLookup.forward on numbers                        *)
(*   SpecStego     STEGO: reset_clusters, training_step, validation_step,  *)
(*                 postprocess and direct calls of the cluster probe       *)
(*   SpecTrain     STEGO: configure_optimizers, reset_clusters,            *)
(*                 training_step statement by statement, and               *)
(*                 validation_epoch_end                                    *)
(*   SpecBackbone  get_backbone and the two backbone constructors          *)
(*   SpecCrf       STEGO.postprocess_crf and CRF.dense_crf                 *)
(*                                                                         *)
(* Real numbers are fixed-point integers in tenths (0.8 is 8, 1.0 is 10).  *)
(* Batch tensors are sequences indexed from 1; the index vectors of the    *)
(* code (perm_neg) keep the code's indices 0..N-1.                         *)
(***************************************************************************)
EXTENDS Integers, Sequences, FiniteSets, TLC

VARIABLES
    \* ---- ContrastiveCorrelationLoss.forward
    lossPc,        \* position in forward
    batch,         \* orig_feats.shape[0]
    neg_samples,   \* cfg.neg_samples
    coords1,       \* first coordinate draw, one coordinate set per image
    coords2,       \* second coordinate draw
    sampled,       \* feats, code, feats_pos, code_pos
    pos_intra,     \* the intra-positive helper call: its arguments and results
    pos_inter,     \* the inter-positive helper call
    neg_calls,     \* the negative helper calls, in order, each with its perm_neg
    neg_losses,    \* the list neg_losses
    neg_cds,       \* the list neg_cds
    permCalls,     \* number of super_perm invocations of this forward call
    ret,           \* the six returned values
    \* ---- ContrastiveCorrelationLoss.helper, on numbers
    helperPc,      \* "start", then "returned"
    helperCfg,     \* cfg.zero_clamp, cfg.stabalize, cfg.pointwise
    helperIn,      \* fd and cd as tensor_correlation gives them, and shift
    helperOut,     \* the pair helper returns
    \* ---- ClusterLookup.forward, on numbers
    lookupPc,      \* "start", then "returned" or "raised"
    clusters,      \* self.clusters: one vector per prototype
    lookupIn,      \* x (one code vector per pixel), alpha, log_probs
    lookupOut,     \* what forward returns
    \* ---- STEGO
    n_classes,       \* self.n_classes
    cluster_probe,   \* self.cluster_probe: n_classes, dim, the shape of clusters
    linear_probe,    \* self.linear_probe: in and out channels
    cluster_metrics, \* self.cluster_metrics: n_classes, extra_clusters
    linear_metrics,  \* self.linear_metrics
    lastAssign,      \* the last call of the cluster probe and what it returned
    resets,          \* number of reset_clusters calls so far
    lastReset,       \* the arguments of the last reset_clusters call
    \* ---- STEGO: the optimizers, training_step and validation_epoch_end
    trainOp,         \* the method that is running: "idle" between calls
    trainPc,         \* the statement of it that runs next
    optimizers,      \* what self.optimizers() returns: the parameters each optimizer holds
    params,          \* every parameter object: how often it was updated, and its .grad
    set_to_none,     \* the default of Optimizer.zero_grad in the installed torch
    loss,            \* the local loss of training_step: the terms summed so far
    corr,            \* the three cd tensors the correlation loss returned
    events,          \* the optimization calls of the running or last training_step
    cd_hist,         \* self.cd_hist: the bin counts, and what they are divided by
    cd_log,          \* the cd tensors of every training_step since the last checkpoint
    steps,           \* number of training_step calls so far
    \* ---- get_backbone and the backbone constructors
    backbonePc,    \* position in get_backbone and the constructor it calls
    backbone_cfg,  \* cfg: backbone, backbone_type, patch_size, pretrained_weights
    vits,          \* the names vits.__dict__ holds
    model,         \* self.model: what was built, if anything
    weights,       \* where the weights of self.model were loaded from, if anywhere
    n_feats,       \* self.n_feats
    raised,        \* the exception get_backbone ended with, if any
    \* ---- STEGO.postprocess_crf and CRF.dense_crf
    crfPc,         \* "loop", "done" or "raised"
    img_shape,     \* img.shape: batch, 3, height, width
    probs_shape,   \* probs.shape: batch, classes, height, width
    crf_max_iter,  \* cfg.crf_max_iter
    crfJ,          \* the loop variable j of postprocess_crf
    pred,          \* pred[0..j-1]: one label map per image, row by row
    inferences     \* the iteration count of every d.inference call so far

lossVars == <<lossPc, batch, neg_samples, coords1, coords2, sampled, pos_intra,
              pos_inter, neg_calls, neg_losses, neg_cds, permCalls, ret>>

helperVars == <<helperPc, helperCfg, helperIn, helperOut>>

lookupVars == <<lookupPc, clusters, lookupIn, lookupOut>>

stegoVars == <<n_classes, cluster_probe, linear_probe, cluster_metrics,
               linear_metrics, lastAssign, resets, lastReset>>

trainVars == <<trainOp, trainPc, optimizers, params, set_to_none, loss, corr,
               events, cd_hist, cd_log, steps>>

backboneVars == <<backbonePc, backbone_cfg, vits, model, weights, n_feats, raised>>

crfVars == <<crfPc, img_shape, probs_shape, crf_max_iter, crfJ, pred, inferences>>

None == "None"

\* What the actions of one component leave alone: the other components.
FrameLoss ==
    UNCHANGED <<helperVars, lookupVars, stegoVars, trainVars, backboneVars, crfVars>>
FrameHelper ==
    UNCHANGED <<lossVars, lookupVars, stegoVars, trainVars, backboneVars, crfVars>>
FrameLookup ==
    UNCHANGED <<lossVars, helperVars, stegoVars, trainVars, backboneVars, crfVars>>
FrameStego ==
    UNCHANGED <<lossVars, helperVars, lookupVars, trainVars, backboneVars, crfVars>>
FrameTrain ==
    UNCHANGED <<lossVars, helperVars, lookupVars, backboneVars, crfVars>>
FrameBackbone ==
    UNCHANGED <<lossVars, helperVars, lookupVars, stegoVars, trainVars, crfVars>>
FrameCrf ==
    UNCHANGED <<lossVars, helperVars, lookupVars, stegoVars, trainVars, backboneVars>>

-----------------------------------------------------------------------------
(***************************************************************************)
(* Bounds of the model.                                                    *)
(***************************************************************************)
MaxBatch == 3
MaxNeg == 2
MaxProto == 3
MaxPix == 2
MaxClasses == 3
MaxExtra == 2
MaxResets == 2
MaxSide == 2
Dim == 2
MaxCrfBatch == 2
MaxCrfClasses == 3
MaxCrfSide == 2
MaxIter == 2

\* The values one coordinate set can take: a draw of torch.rand is one of
\* them.  Two values are what the claims need: a draw equal to another draw,
\* and a draw different from it.
CoordSets == {"p", "q"}

-----------------------------------------------------------------------------
(***************************************************************************)
(* ContrastiveCorrelationLoss.forward                                      *)
(***************************************************************************)

\* The four input maps.  Entry b of a map is the map of image b of the batch;
\* it is named, not computed: <<which map, which image>>.
OrigMap(name, n) == [b \in 1..n |-> [map |-> name, img |-> b - 1]]

orig_feats == OrigMap("orig_feats", batch)
orig_feats_pos == OrigMap("orig_feats_pos", batch)
orig_code == OrigMap("orig_code", batch)
orig_code_pos == OrigMap("orig_code_pos", batch)

\* torch.rand(coord_shape) * 2 - 1: any coordinate set for every image.
RandCoords(n) == [1..n -> CoordSets]

\* stego.utils.sample(t, coords): entry b is image b of t read at coords[b].
Sample(t, coords) ==
    [b \in 1..Len(t) |-> [map |-> t[b].map, img |-> t[b].img, at |-> coords[b]]]

\* stego.utils.super_perm(size): the index vectors it may return.
Perms(n) == {p \in [0..(n - 1) -> 0..(n - 1)] :
                \A i, j \in 0..(n - 1) : p[i] = p[j] => i = j}

SuperPerm(n) == {p \in Perms(n) : \A i \in 0..(n - 1) : p[i] # i}

\* Two faulty forms of t[perm_neg], for testing the properties: the index
\* vector ignored, and only its first entry used.
GatherNoPerm(t, perm) == t

GatherFirst(t, perm) == [i \in 1..Len(t) |-> t[perm[0] + 1]]

\* t[perm_neg]: entry i of the result is entry perm_neg[i] of t.
Gather(t, perm) == [i \in 1..Len(t) |-> t[perm[i - 1] + 1]]

\* helper(f1, f2, c1, c2, shift) on tensors that carry their origin: entry b of
\* the unreduced loss and of cd is computed from entry b of the arguments
\* (tensor_correlation contracts the channel axis of one batch element).
HelperCall(f1, f2, c1, c2, shift) ==
    [f1 |-> f1, f2 |-> f2, c1 |-> c1, c2 |-> c2, shift |-> shift,
     loss |-> [b \in 1..Len(f1) |->
                 [of |-> "loss", f1 |-> f1[b], f2 |-> f2[b],
                  c1 |-> c1[b], c2 |-> c2[b], shift |-> shift]],
     cd |-> [b \in 1..Len(c1) |-> [of |-> "cd", c1 |-> c1[b], c2 |-> c2[b]]]]

\* A faulty form of lines 118-121, for testing the properties: the code map
\* read at the other draw.
ForwardSampleCodeOther(c1, c2) ==
    [feats |-> Sample(orig_feats, c1),
     code |-> Sample(orig_code, c2),
     feats_pos |-> Sample(orig_feats_pos, c2),
     code_pos |-> Sample(orig_code_pos, c2)]

\* Lines 118-121.
ForwardSample(c1, c2) ==
    [feats |-> Sample(orig_feats, c1),
     code |-> Sample(orig_code, c1),
     feats_pos |-> Sample(orig_feats_pos, c2),
     code_pos |-> Sample(orig_code_pos, c2)]

\* Another form of lines 123-124, for testing the properties: the second
\* argument pair read at the second draw.
PosIntraTwoDraws(s) ==
    HelperCall(s.feats, Sample(orig_feats, coords2),
               s.code, Sample(orig_code, coords2), "pos_intra_shift")

\* Lines 123-124.
PosIntraCall(s) ==
    HelperCall(s.feats, s.feats, s.code, s.code, "pos_intra_shift")

\* Lines 125-126.
PosInterCall(s) ==
    HelperCall(s.feats, s.feats_pos, s.code, s.code_pos, "pos_inter_shift")

\* Lines 132-135: one negative sample, gathered with perm_neg.
NegCall(s, perm_neg) ==
    HelperCall(s.feats, Sample(Gather(orig_feats, perm_neg), coords2),
               s.code, Sample(Gather(orig_code, perm_neg), coords2),
               "neg_inter_shift")

\* A faulty form of torch.cat, for testing the properties: only the last
\* tensor of the list is kept.
CatLast(ts) == IF ts = <<>> THEN <<>> ELSE ts[Len(ts)]

\* torch.cat(ts, axis=0) of a non-empty list of tensors.
RECURSIVE Cat(_)
Cat(ts) == IF ts = <<>> THEN <<>> ELSE Head(ts) \o Cat(Tail(ts))

InitLoss ==
    /\ lossPc = "start"
    /\ batch \in 1..MaxBatch
    /\ neg_samples \in 0..MaxNeg
    /\ coords1 = None
    /\ coords2 = None
    /\ sampled = None
    /\ pos_intra = None
    /\ pos_inter = None
    /\ neg_calls = <<>>
    /\ neg_losses = <<>>
    /\ neg_cds = <<>>
    /\ permCalls = 0
    /\ ret = None

IdleLoss ==
    /\ lossPc = "idle"
    /\ batch = 0
    /\ neg_samples = 0
    /\ coords1 = None
    /\ coords2 = None
    /\ sampled = None
    /\ pos_intra = None
    /\ pos_inter = None
    /\ neg_calls = <<>>
    /\ neg_losses = <<>>
    /\ neg_cds = <<>>
    /\ permCalls = 0
    /\ ret = None

\* Lines 114-116.
DrawCoords ==
    /\ lossPc = "start"
    /\ coords1' \in RandCoords(batch)
    /\ coords2' \in RandCoords(batch)
    /\ lossPc' = "coords"
    /\ UNCHANGED <<batch, neg_samples, sampled, pos_intra, pos_inter, neg_calls,
                   neg_losses, neg_cds, permCalls, ret>>
    /\ FrameLoss

\* Lines 118-121.
SampleMaps ==
    /\ lossPc = "coords"
    /\ sampled' = ForwardSample(coords1, coords2)
    /\ lossPc' = "sampled"
    /\ UNCHANGED <<batch, neg_samples, coords1, coords2, pos_intra, pos_inter,
                   neg_calls, neg_losses, neg_cds, permCalls, ret>>
    /\ FrameLoss

\* Lines 123-124.
PosIntra ==
    /\ lossPc = "sampled"
    /\ pos_intra' = PosIntraCall(sampled)
    /\ lossPc' = "intra"
    /\ UNCHANGED <<batch, neg_samples, coords1, coords2, sampled, pos_inter,
                   neg_calls, neg_losses, neg_cds, permCalls, ret>>
    /\ FrameLoss

\* Lines 125-129.
PosInter ==
    /\ lossPc = "intra"
    /\ pos_inter' = PosInterCall(sampled)
    /\ lossPc' = "loop"
    /\ UNCHANGED <<batch, neg_samples, coords1, coords2, sampled, pos_intra,
                   neg_calls, neg_losses, neg_cds, permCalls, ret>>
    /\ FrameLoss

\* Lines 130-137, one iteration of the loop.
NegIteration ==
    /\ lossPc = "loop"
    /\ Len(neg_losses) < neg_samples
    /\ batch >= 2
    /\ \E perm_neg \in SuperPerm(batch) :
          LET h == NegCall(sampled, perm_neg) IN
          /\ neg_calls' = Append(neg_calls, [perm |-> perm_neg, call |-> h])
          /\ neg_losses' = Append(neg_losses, h.loss)
          /\ neg_cds' = Append(neg_cds, h.cd)
    /\ permCalls' = permCalls + 1
    /\ UNCHANGED <<lossPc, batch, neg_samples, coords1, coords2, sampled,
                   pos_intra, pos_inter, ret>>
    /\ FrameLoss

\* Line 131 for a batch of one image: no index vector without a fixed point
\* exists, and the generator fails.
NegIterationFails ==
    /\ lossPc = "loop"
    /\ Len(neg_losses) < neg_samples
    /\ batch < 2
    /\ permCalls' = permCalls + 1
    /\ lossPc' = "raised"
    /\ UNCHANGED <<batch, neg_samples, coords1, coords2, sampled, pos_intra,
                   pos_inter, neg_calls, neg_losses, neg_cds, ret>>
    /\ FrameLoss

\* Lines 138-146 with a non-empty list.
CatAndReturn ==
    /\ lossPc = "loop"
    /\ Len(neg_losses) = neg_samples
    /\ neg_samples >= 1
    /\ ret' = [pos_intra_loss |-> [mean_of |-> pos_intra.loss],
               pos_intra_cd |-> pos_intra.cd,
               pos_inter_loss |-> [mean_of |-> pos_inter.loss],
               pos_inter_cd |-> pos_inter.cd,
               neg_inter_loss |-> Cat(neg_losses),
               neg_inter_cd |-> Cat(neg_cds)]
    /\ lossPc' = "done"
    /\ UNCHANGED <<batch, neg_samples, coords1, coords2, sampled, pos_intra,
                   pos_inter, neg_calls, neg_losses, neg_cds, permCalls>>
    /\ FrameLoss

\* Line 138 with neg_samples = 0: torch.cat of an empty list raises.
CatRaises ==
    /\ lossPc = "loop"
    /\ neg_samples = 0
    /\ lossPc' = "raised"
    /\ UNCHANGED <<batch, neg_samples, coords1, coords2, sampled, pos_intra,
                   pos_inter, neg_calls, neg_losses, neg_cds, permCalls, ret>>
    /\ FrameLoss

NextLoss ==
    \/ DrawCoords
    \/ SampleMaps
    \/ PosIntra
    \/ PosInter
    \/ NegIteration
    \/ NegIterationFails
    \/ CatAndReturn
    \/ CatRaises

-----------------------------------------------------------------------------
(***************************************************************************)
(* ContrastiveCorrelationLoss.helper on numbers                            *)
(*                                                                         *)
(* fd and cd are the two correlation tensors, in tenths.  A tensor is      *)
(* [Rows -> [Cols -> Int]]: a row is one batch element and one position of *)
(* the first argument (axes 0, 1, 2), a column one position of the second  *)
(* argument (axes 3, 4), so fd.mean([3, 4]) is the mean of a row.  Inside  *)
(* helper fd is kept in units of 1/(10 * NumEntries), in which the means   *)
(* are integers; the loss is then in units of 1/(100 * NumEntries).        *)
(***************************************************************************)
Rows == 1..2
Cols == 1..2
NumEntries == Cardinality(Rows) * Cardinality(Cols)

\* Values of the entries of fd and of cd (cosine similarities, in tenths), and
\* of the shift.
FdValues == {-10, 4, 10}
CdValues == {-6, 4, 9}
ShiftValues == {0, 3}

\* min_val when cfg.zero_clamp is off, and the upper bound under
\* cfg.stabalize, in tenths.
NoClampMin == -99990
StabalizeMax == 8

RECURSIVE SumOver(_, _)
SumOver(f, S) ==
    IF S = {} THEN 0
    ELSE LET x == CHOOSE y \in S : TRUE IN f[x] + SumOver(f, S \ {x})

RowSum(t, r) == SumOver(t[r], Cols)
TotalSum(t) == SumOver([r \in Rows |-> RowSum(t, r)], Rows)

\* Lines 91-93, on fd in units of 1/(10 * NumEntries).
Pointwise(fd) ==
    LET old_mean == TotalSum(fd) \div NumEntries
        t1 == [r \in Rows |-> [c \in Cols |->
                  fd[r][c] - (RowSum(fd, r) \div Cardinality(Cols))]]
        mean1 == TotalSum(t1) \div NumEntries
    IN  [r \in Rows |-> [c \in Cols |-> t1[r][c] - mean1 + old_mean]]

\* Lines 88-93: fd as the loss uses it, in units of 1/(10 * NumEntries).
FdUsed(cfg, fd) ==
    LET fine == [r \in Rows |-> [c \in Cols |-> NumEntries * fd[r][c]]]
    IN  IF cfg.pointwise THEN Pointwise(fine) ELSE fine

\* A faulty form of lines 97-100, for testing the properties: the two bounds
\* swapped.
MinValSwapped(cfg) == IF cfg.zero_clamp THEN NoClampMin ELSE 0

\* Lines 97-100.
MinVal(cfg) == IF cfg.zero_clamp THEN 0 ELSE NoClampMin

\* Tensor.clamp(min) and Tensor.clamp(min, max) of one entry.
ClampMin(x, lo) == IF x < lo THEN lo ELSE x
ClampMinMax(x, lo, hi) == IF ClampMin(x, lo) > hi THEN hi ELSE ClampMin(x, lo)

\* Lines 102-105, one entry: cd in tenths, fd and shift in units of
\* 1/(10 * NumEntries).
LossEntry(cfg, cd, fd, shift) ==
    IF cfg.stabalize
    THEN (0 - ClampMinMax(cd, MinVal(cfg), StabalizeMax)) * (fd - shift)
    ELSE (0 - ClampMin(cd, MinVal(cfg))) * (fd - shift)

\* Lines 85-107.
Helper(cfg, fd, cd, shift) ==
    [loss |-> [r \in Rows |-> [c \in Cols |->
                 LossEntry(cfg, cd[r][c], FdUsed(cfg, fd)[r][c],
                           NumEntries * shift)]],
     cd |-> cd]

HelperCfgs == [zero_clamp : BOOLEAN, stabalize : BOOLEAN, pointwise : BOOLEAN]

InitHelper ==
    /\ helperPc = "start"
    /\ helperCfg \in HelperCfgs
    /\ helperIn \in [fd : [Rows -> [Cols -> FdValues]],
                     cd : [Rows -> [Cols -> CdValues]],
                     shift : ShiftValues]
    /\ helperOut = [loss |-> <<>>, cd |-> <<>>]

IdleHelper ==
    /\ helperPc = "idle"
    /\ helperCfg = None
    /\ helperIn = None
    /\ helperOut = None

CallHelper ==
    /\ helperPc = "start"
    /\ helperOut' = Helper(helperCfg, helperIn.fd, helperIn.cd, helperIn.shift)
    /\ helperPc' = "returned"
    /\ UNCHANGED <<helperCfg, helperIn>>
    /\ FrameHelper

NextHelper == CallHelper

-----------------------------------------------------------------------------
(***************************************************************************)
(* ClusterLookup.forward on numbers                                        *)
(*                                                                         *)
(* A code vector and a prototype are vectors of two integers (dim = 2).    *)
(* The code map is the sequence of its pixels' vectors (axes b, h, w).  A  *)
(* cosine similarity is kept exactly, as num / sqrt(den2).                 *)
(***************************************************************************)
Vectors == {<<0, 0>>, <<1, 0>>, <<2, 0>>, <<0, 1>>, <<-1, 0>>, <<2, 1>>}

\* alpha: no temperature (Python's None), or a temperature.
NoAlpha == <<>>
Alphas == {NoAlpha, <<2>>}

Dot(u, v) == u[1] * v[1] + u[2] * v[2]
NormSq(v) == Dot(v, v)

\* A faulty form of one entry of inner_products, for testing the properties:
\* the prototypes not normalized.
InnerProductRawClusters(x, p) ==
    IF NormSq(x) = 0 THEN [num |-> 0, den2 |-> 1]
    ELSE [num |-> Dot(x, p), den2 |-> NormSq(x)]

\* Lines 54-56, one entry of inner_products: the dot product of
\* F.normalize(x) and F.normalize(p).  F.normalize divides by
\* max(norm, eps), which leaves a zero vector zero.
InnerProduct(x, p) ==
    IF NormSq(x) = 0 \/ NormSq(p) = 0 THEN [num |-> 0, den2 |-> 1]
    ELSE [num |-> Dot(x, p), den2 |-> NormSq(x) * NormSq(p)]

\* a < b for two similarities num / sqrt(den2).
CosLess(a, b) ==
    IF a.num < 0 /\ b.num >= 0 THEN TRUE
    ELSE IF a.num >= 0 /\ b.num < 0 THEN FALSE
    ELSE IF a.num >= 0 THEN a.num * a.num * b.den2 < b.num * b.num * a.den2
    ELSE a.num * a.num * b.den2 > b.num * b.num * a.den2

\* torch.argmax over the prototype axis: the first index of a maximal entry
\* (an index of the code, from 0).
ArgMax(ips) ==
    (CHOOSE k \in 1..Len(ips) :
        /\ \A j \in 1..Len(ips) : ~CosLess(ips[k], ips[j])
        /\ \A j \in 1..(k - 1) : CosLess(ips[j], ips[k])) - 1

\* F.one_hot(index, num_classes) of one pixel, as floats in units of 1.
OneHot(index, num_classes) ==
    [j \in 1..num_classes |-> IF j - 1 = index THEN 1 ELSE 0]

\* Lines 53-68.  The soft outputs are kept as the expressions they are: entry
\* j of a pixel is softmax (or log_softmax) over that pixel's scaled inner
\* products, taken at j.
ClusterForward(cl, x, alpha, log_probs) ==
    LET inner_products ==
            [px \in 1..Len(x) |-> [n \in 1..Len(cl) |-> InnerProduct(x[px], cl[n])]]
        cluster_probs ==
            IF alpha = NoAlpha
            THEN [px \in 1..Len(x) |->
                    OneHot(ArgMax(inner_products[px]), Len(cl))]
            ELSE [px \in 1..Len(x) |->
                    [n \in 1..Len(cl) |->
                       [fn |-> "softmax", of |-> inner_products[px],
                        times |-> alpha, at |-> n - 1]]]
    IN  IF log_probs
        THEN IF alpha = NoAlpha
             THEN [kind |-> "raised"]
             ELSE [kind |-> "log_probs",
                   value |-> [px \in 1..Len(x) |->
                                [n \in 1..Len(cl) |->
                                   [fn |-> "log_softmax", of |-> inner_products[px],
                                    times |-> alpha, at |-> n - 1]]]]
        ELSE [kind |-> "loss_and_probs",
              inner_products |-> inner_products,
              cluster_probs |-> cluster_probs]

InitLookup ==
    /\ lookupPc = "start"
    /\ \E n \in 1..MaxProto : clusters \in [1..n -> Vectors]
    /\ \E np \in 1..MaxPix :
          lookupIn \in [x : [1..np -> Vectors], alpha : Alphas,
                        log_probs : BOOLEAN]
    /\ lookupOut = [kind |-> "none"]

IdleLookup ==
    /\ lookupPc = "idle"
    /\ clusters = <<>>
    /\ lookupIn = None
    /\ lookupOut = None

CallForward ==
    /\ lookupPc = "start"
    /\ lookupOut' = ClusterForward(clusters, lookupIn.x, lookupIn.alpha,
                                   lookupIn.log_probs)
    /\ lookupPc' = IF lookupOut'.kind = "raised" THEN "raised" ELSE "returned"
    /\ UNCHANGED <<clusters, lookupIn>>
    /\ FrameLookup

NextLookup == CallForward

-----------------------------------------------------------------------------
(***************************************************************************)
(* STEGO: the probes, their shapes, and the calls of the cluster probe     *)
(*                                                                         *)
(* The prototypes are kept by their shape here (their values are the       *)
(* subject of SpecCluster): a call of the cluster probe returns a tensor   *)
(* whose shape follows from the shape of its input and of self.clusters.   *)
(***************************************************************************)

\* ClusterLookup.__init__(dim, n_classes).
ClusterLookupNew(dim, n) ==
    [n_classes |-> n, dim |-> dim, clusters_shape |-> <<n, dim>>]

\* A faulty form of line 230, for testing the properties: the extra clusters
\* left out.
ResetProbeNoExtra(dim, n, extra) == ClusterLookupNew(dim, n)

\* Lines 206 and 230: the cluster probe for n classes and extra clusters.
NewClusterProbe(dim, n, extra) == ClusterLookupNew(dim, n + extra)

\* UnsupervisedMetrics(prefix, n_classes, extra_clusters, compute_hungarian).
NewMetrics(prefix, n, extra, hungarian) ==
    [prefix |-> prefix, n_classes |-> n, extra_clusters |-> extra,
     compute_hungarian |-> hungarian]

\* nn.Conv2d(dim, n_classes, (1, 1)).
NewLinearProbe(dim, n) == [in_channels |-> dim, out_channels |-> n]

\* The shapes of the code maps given to the probes: batch, dim, height, width.
CodeShapes == {<<b, Dim, side, side>> : b \in 1..MaxBatch, side \in 1..MaxSide}

\* Lines 53-68 on shapes: einsum("bchw,nc->bnhw") gives n = clusters.shape[0]
\* channels, which one_hot (num_classes = clusters.shape[0], then permute),
\* softmax and log_softmax over dim 1 keep.  log_probs with alpha = None
\* multiplies by None and raises.
AssignShape(probe, x_shape, alpha, log_probs) ==
    LET inner_products == <<x_shape[1], probe.clusters_shape[1], x_shape[3], x_shape[4]>>
    IN  IF log_probs /\ alpha = NoAlpha
        THEN [kind |-> "raised", shape |-> <<>>]
        ELSE [kind |-> IF log_probs THEN "log_probs" ELSE "loss_and_probs",
              shape |-> inner_products]

Assigned(by, x_shape, alpha, log_probs) ==
    [by |-> by, alpha |-> alpha, x_shape |-> x_shape, resets |-> resets,
     out |-> AssignShape(cluster_probe, x_shape, alpha, log_probs)]

\* STEGO.__init__(n_classes, cfg), lines 188-223.
InitStego ==
    /\ n_classes \in 1..MaxClasses
    /\ \E extra \in 0..MaxExtra :
          /\ cluster_probe = NewClusterProbe(Dim, n_classes, extra)
          /\ cluster_metrics = NewMetrics("test/cluster/", n_classes, extra, TRUE)
    /\ linear_probe = NewLinearProbe(Dim, n_classes)
    /\ linear_metrics = NewMetrics("test/linear/", n_classes, 0, FALSE)
    /\ lastAssign = [by |-> "none", alpha |-> NoAlpha, x_shape |-> <<>>,
                     resets |-> 0, out |-> [kind |-> "none", shape |-> <<>>]]
    /\ resets = 0
    /\ lastReset = [n_classes |-> 0, extra_clusters |-> 0]

IdleStego ==
    /\ n_classes = 0
    /\ cluster_probe = None
    /\ linear_probe = None
    /\ cluster_metrics = None
    /\ linear_metrics = None
    /\ lastAssign = None
    /\ resets = 0
    /\ lastReset = None

\* Lines 226-236.
ResetClusters(n, extra) ==
    /\ resets < MaxResets
    /\ cluster_probe' = NewClusterProbe(Dim, n, extra)
    /\ cluster_metrics' = NewMetrics("test/cluster/", n, extra, TRUE)
    /\ linear_probe' = NewLinearProbe(Dim, n)
    /\ linear_metrics' = NewMetrics("test/linear/", n, 0, FALSE)
    /\ n_classes' = n
    /\ resets' = resets + 1
    /\ lastReset' = [n_classes |-> n, extra_clusters |-> extra]
    /\ UNCHANGED lastAssign
    /\ FrameStego

\* Lines 314-379: the cluster probe is called on the detached code with
\* alpha = None (line 368); the optimizers then step the parameters, which
\* changes their values and not their shapes.
TrainingStep(x_shape) ==
    /\ lastAssign' = Assigned("training_step", x_shape, NoAlpha, FALSE)
    /\ UNCHANGED <<n_classes, cluster_probe, linear_probe, cluster_metrics,
                   linear_metrics, resets, lastReset>>
    /\ FrameStego

\* Lines 382-411: the cluster probe is called with alpha = None (line 394).
ValidationStep(x_shape) ==
    /\ lastAssign' = Assigned("validation_step", x_shape, NoAlpha, FALSE)
    /\ UNCHANGED <<n_classes, cluster_probe, linear_probe, cluster_metrics,
                   linear_metrics, resets, lastReset>>
    /\ FrameStego

\* Line 298: postprocess without image clustering calls the cluster probe
\* with alpha = 2 and log_probs = True.
Postprocess(x_shape) ==
    /\ lastAssign' = Assigned("postprocess", x_shape, <<2>>, TRUE)
    /\ UNCHANGED <<n_classes, cluster_probe, linear_probe, cluster_metrics,
                   linear_metrics, resets, lastReset>>
    /\ FrameStego

\* A caller's own call of self.cluster_probe(x, alpha), hard or soft.
ClusterProbeCall(x_shape, alpha) ==
    /\ lastAssign' = Assigned("caller", x_shape, alpha, FALSE)
    /\ UNCHANGED <<n_classes, cluster_probe, linear_probe, cluster_metrics,
                   linear_metrics, resets, lastReset>>
    /\ FrameStego

NextStego ==
    \/ \E n \in 1..MaxClasses, extra \in 0..MaxExtra : ResetClusters(n, extra)
    \/ \E x_shape \in CodeShapes : TrainingStep(x_shape)
    \/ \E x_shape \in CodeShapes : ValidationStep(x_shape)
    \/ \E x_shape \in CodeShapes : Postprocess(x_shape)
    \/ \E x_shape \in CodeShapes, alpha \in Alphas : ClusterProbeCall(x_shape, alpha)

-----------------------------------------------------------------------------
(***************************************************************************)
(* STEGO: configure_optimizers, training_step and validation_epoch_end     *)
(*                                                                         *)
(* A parameter is kept as an object with an identity: how often an         *)
(* optimizer changed its value, and the state of its .grad.  An optimizer  *)
(* is the set of parameter objects it was built with, and the parameters   *)
(* it holds moment estimates for.  training_step runs statement by         *)
(* statement; the optimization calls it makes are recorded in events.      *)
(* Correlation values are fixed-point integers in hundredths.              *)
(***************************************************************************)
MaxSteps == 2

\* bins=40 of torch.histc and the length of self.cd_hist.
Bins == 40

\* A faulty form of ProbeParam, for testing the properties: reset_clusters
\* keeping the parameter objects of the probes it replaces.
ProbeParamInPlace(kind, gen) == <<kind, 0>>

\* The parameter object of a probe.  Lines 206-207 create the probes of
\* generation 0; every reset_clusters call creates new probe modules (lines
\* 230 and 233) and with them new parameter objects, of the next generation.
ProbeParam(kind, gen) == <<kind, gen>>

\* The parameters of the backbone and of the segmentation head (lines
\* 202-204): created once.
NetParam == <<"net", 0>>

ParamIds ==
    {NetParam} \cup {<<kind, gen>> : kind \in {"linear", "cluster"}, gen \in 0..MaxResets}

\* A parameter as its module creates it: never updated, .grad is None.
FreshParam == [updates |-> 0, grad |-> "none"]

\* Optimizer.zero_grad() on the parameters the optimizer holds: .grad becomes
\* None, or is zeroed in place where there is one.
ZeroGrad(ps, held) ==
    [p \in DOMAIN ps |->
        IF p \in held
        THEN [ps[p] EXCEPT !.grad = IF set_to_none \/ @ = "none" THEN "none" ELSE "zero"]
        ELSE ps[p]]

\* The terms of the total loss, in the order training_step adds them.
CorrTerms ==
    {"pos_inter_weight*pos_inter_loss", "pos_intra_weight*pos_intra_loss",
     "neg_inter_weight*neg_inter_loss"}

\* The parameters a term of the loss was computed from.  The correlation
\* terms come from the code of the network (lines 326-339); linear_loss from
\* the current linear probe on the detached code (lines 356-361),
\* cluster_loss from the current cluster probe on the detached code (line 368).
TermParams(term) ==
    CASE term = "linear_loss" -> {ProbeParam("linear", resets)}
      [] term = "cluster_loss" -> {ProbeParam("cluster", resets)}
      [] OTHER -> {NetParam}

\* self.manual_backward(l): every parameter l was computed from gets a .grad.
Backward(ps, l) ==
    LET reached == UNION {TermParams(term) : term \in l}
    IN  [p \in DOMAIN ps |->
            IF p \in reached THEN [ps[p] EXCEPT !.grad = "set"] ELSE ps[p]]

\* Adam.step() moves a parameter it holds when the parameter has a .grad and
\* the gradient or the moment estimates kept for it are not zero; it skips a
\* parameter whose .grad is None.
Moves(ps, opt, p) ==
    /\ p \in opt.held
    /\ \/ ps[p].grad = "set"
       \/ ps[p].grad = "zero" /\ p \in opt.moments

AdamStep(ps, opt) ==
    [p \in DOMAIN ps |->
        IF Moves(ps, opt, p) THEN [ps[p] EXCEPT !.updates = @ + 1] ELSE ps[p]]

AdamMoments(ps, opt) ==
    [opt EXCEPT !.moments = @ \cup {p \in opt.held : ps[p].grad = "set"}]

\* torch.optim.Adam(parameters): holds the parameter objects it is given.
NewAdam(held) == [held |-> held, moments |-> {}]

NoOptimizers ==
    [configured |-> FALSE, gen |-> 0,
     net |-> NewAdam({}), linear |-> NewAdam({}), cluster |-> NewAdam({})]

\* The body of training_step, lines 316-379, as the sequence of its
\* statements.
TrainingStepBody ==
    << [line |-> 316, op |-> "zero_grad", target |-> "net"],
       [line |-> 317, op |-> "zero_grad", target |-> "linear"],
       [line |-> 318, op |-> "zero_grad", target |-> "cluster"],
       [line |-> 326, op |-> "forward", target |-> "img"],
       [line |-> 327, op |-> "forward", target |-> "img_pos"],
       [line |-> 329, op |-> "corr_loss", target |-> ""],
       [line |-> 341, op |-> "histc", target |-> ""],
       [line |-> 352, op |-> "weighted_sum", target |-> ""],
       [line |-> 365, op |-> "linear_loss", target |-> ""],
       [line |-> 368, op |-> "cluster_loss", target |-> ""],
       [line |-> 374, op |-> "backward", target |-> ""],
       [line |-> 375, op |-> "step", target |-> "net"],
       [line |-> 376, op |-> "step", target |-> "cluster"],
       [line |-> 377, op |-> "step", target |-> "linear"],
       [line |-> 379, op |-> "return", target |-> ""] >>

\* A faulty form of Statement, for testing the properties: manual_backward
\* and the last optimizer step exchanged.
StatementBackwardLate(pc) ==
    LET b == CHOOSE i \in DOMAIN TrainingStepBody : TrainingStepBody[i].op = "backward"
        s == CHOOSE i \in DOMAIN TrainingStepBody :
                 TrainingStepBody[i] = [line |-> 377, op |-> "step", target |-> "linear"]
    IN  TrainingStepBody[IF pc = b THEN s ELSE IF pc = s THEN b ELSE pc]

\* The statement of training_step at position pc.
Statement(pc) == TrainingStepBody[pc]

Running(op) == trainOp = "training_step" /\ Statement(trainPc).op = op

\* One optimization call: who made it, what it is, on which optimizer or
\* input, and for backward the terms of the loss it is called on.
Event(by, op, target, on) == [by |-> by, op |-> op, target |-> target, on |-> on]

\* What a module's forward does when training_step calls it:
\* ContrastiveCorrelationLoss.forward (lines 127-183) and
\* ClusterLookup.forward (lines 53-68) compute and return; neither calls
\* backward or an optimizer.
ModuleForward(module) == << Event(module, "forward", "", {}) >>

\* The cd tensors one call of the correlation loss may return: cosine
\* similarities, in hundredths.  The values cover both ends of the range, the
\* inside, and 101: a value that rounding has pushed over 1.
CorrOutputs ==
    { [pos_intra_cd |-> <<-100, 3>>, pos_inter_cd |-> <<3>>,
       neg_inter_cd |-> <<100, 101>>],
      [pos_intra_cd |-> <<100>>, pos_inter_cd |-> <<-100, -100>>,
       neg_inter_cd |-> <<3, 47>>] }

NoCorr == [pos_intra_cd |-> <<>>, pos_inter_cd |-> <<>>, neg_inter_cd |-> <<>>]

\* torch.histc(t, bins=40, min=-1, max=1): equal-width bins over [-1, 1], the
\* upper edge inside the last bin, values outside the range ignored.
BinOf(x) == IF x = 100 THEN Bins - 1 ELSE ((x + 100) * Bins) \div 200

Histc(t) ==
    [b \in 0..(Bins - 1) |->
        Cardinality({i \in DOMAIN t : t[i] >= -100 /\ t[i] <= 100 /\ BinOf(t[i]) = b})]

\* torch.add on two bin vectors.
Add(h, g) == [b \in DOMAIN h |-> h[b] + g[b]]

\* torch.zeros(40), lines 221 and 441.
ZeroHist == [counts |-> [b \in 0..(Bins - 1) |-> 0], over |-> 1]

\* A faulty form of AddHistograms, for testing the properties: the histogram
\* of the negatives left out.
AddHistogramsNoNeg(h, intra, inter, neg) ==
    [h EXCEPT !.counts = Add(Add(@, Histc(intra)), Histc(inter))]

\* Lines 341-343.
AddHistograms(h, intra, inter, neg) ==
    [h EXCEPT !.counts = Add(Add(Add(@, Histc(intra)), Histc(inter)), Histc(neg))]

RECURSIVE SumBins(_, _)
SumBins(counts, b) == IF b < 0 THEN 0 ELSE counts[b] + SumBins(counts, b - 1)

\* Line 427: self.cd_hist / torch.sum(self.cd_hist).  The quotient is kept as
\* the counts and their divisor; a divisor of 0 makes every entry nan.
Normalize(h) == [h EXCEPT !.over = @ * SumBins(h.counts, Bins - 1)]

\* The shape of the code map training_step gives to the probes.
TrainCodeShape == <<1, Dim, 1, 1>>

\* STEGO.__init__, lines 188-223, for the part the optimizers and the
\* histogram need; the probes are those of InitStego.
InitTrain ==
    /\ trainOp = "idle"
    /\ trainPc = 0
    /\ optimizers = NoOptimizers
    /\ params = [p \in ParamIds |-> FreshParam]
    /\ set_to_none \in BOOLEAN
    /\ loss = {}
    /\ corr = NoCorr
    /\ events = <<>>
    /\ cd_hist = ZeroHist
    /\ cd_log = <<>>
    /\ steps = 0

IdleTrain ==
    /\ trainOp = "off"
    /\ trainPc = 0
    /\ optimizers = None
    /\ params = None
    /\ set_to_none = FALSE
    /\ loss = {}
    /\ corr = None
    /\ events = <<>>
    /\ cd_hist = None
    /\ cd_log = <<>>
    /\ steps = 0

\* Lines 239-244, called by the trainer; what it returns is what
\* self.optimizers() gives from then on.
ConfigureOptimizers ==
    /\ trainOp = "idle"
    /\ optimizers' =
          [configured |-> TRUE, gen |-> resets,
           net |-> NewAdam({NetParam}),
           linear |-> NewAdam({ProbeParam("linear", resets)}),
           cluster |-> NewAdam({ProbeParam("cluster", resets)})]
    /\ UNCHANGED <<trainOp, trainPc, params, set_to_none, loss, corr, events,
                   cd_hist, cd_log, steps>>
    /\ UNCHANGED stegoVars
    /\ FrameTrain

\* The arguments reset_clusters is called with between training steps: the
\* smallest and the largest.
ResetArgs == {<<1, 0>>, <<MaxClasses, MaxExtra>>}

\* Lines 226-236, called between two calls of the trainer.
ResetBetweenSteps(n, extra) ==
    /\ trainOp = "idle"
    /\ ResetClusters(n, extra)

\* Line 315.  The trainer calls training_step after configure_optimizers.
TrainingStepBegin ==
    /\ trainOp = "idle"
    /\ optimizers.configured
    /\ steps < MaxSteps
    /\ trainOp' = "training_step"
    /\ trainPc' = 1
    /\ steps' = steps + 1
    /\ loss' = {}
    /\ corr' = NoCorr
    /\ events' = <<>>
    /\ UNCHANGED <<optimizers, params, set_to_none, cd_hist, cd_log>>
    /\ UNCHANGED stegoVars
    /\ FrameTrain

\* Lines 316-318.
ZeroGradStatement ==
    /\ Running("zero_grad")
    /\ LET target == Statement(trainPc).target
       IN  /\ params' = ZeroGrad(params, optimizers[target].held)
           /\ events' = Append(events, Event("training_step", "zero_grad", target, {}))
    /\ trainPc' = trainPc + 1
    /\ UNCHANGED <<trainOp, optimizers, set_to_none, loss, corr, cd_hist, cd_log, steps>>
    /\ UNCHANGED stegoVars
    /\ FrameTrain

\* Lines 326-327: self.forward(img), self.forward(img_pos).
ForwardStatement ==
    /\ Running("forward")
    /\ events' = Append(events, Event("training_step", "forward",
                                      Statement(trainPc).target, {}))
    /\ trainPc' = trainPc + 1
    /\ UNCHANGED <<trainOp, optimizers, params, set_to_none, loss, corr, cd_hist,
                   cd_log, steps>>
    /\ UNCHANGED stegoVars
    /\ FrameTrain

\* Lines 329-339: the correlation loss returns three losses and three cd
\* tensors.
CorrLossStatement ==
    /\ Running("corr_loss")
    /\ corr' \in CorrOutputs
    /\ events' = events \o ModuleForward("contrastive_corr_loss_fn")
    /\ trainPc' = trainPc + 1
    /\ UNCHANGED <<trainOp, optimizers, params, set_to_none, loss, cd_hist, cd_log,
                   steps>>
    /\ UNCHANGED stegoVars
    /\ FrameTrain

\* Lines 341-343.
HistcStatement ==
    /\ Running("histc")
    /\ cd_hist' = AddHistograms(cd_hist, corr.pos_intra_cd, corr.pos_inter_cd,
                                corr.neg_inter_cd)
    /\ cd_log' = Append(cd_log, corr)
    /\ trainPc' = trainPc + 1
    /\ UNCHANGED <<trainOp, optimizers, params, set_to_none, loss, corr, events, steps>>
    /\ UNCHANGED stegoVars
    /\ FrameTrain

\* Lines 352-354.
WeightedSumStatement ==
    /\ Running("weighted_sum")
    /\ loss' = CorrTerms
    /\ trainPc' = trainPc + 1
    /\ UNCHANGED <<trainOp, optimizers, params, set_to_none, corr, events, cd_hist,
                   cd_log, steps>>
    /\ UNCHANGED stegoVars
    /\ FrameTrain

\* Lines 356-365: loss += linear_loss.
LinearLossStatement ==
    /\ Running("linear_loss")
    /\ loss' = loss \cup {"linear_loss"}
    /\ trainPc' = trainPc + 1
    /\ UNCHANGED <<trainOp, optimizers, params, set_to_none, corr, events, cd_hist,
                   cd_log, steps>>
    /\ UNCHANGED stegoVars
    /\ FrameTrain

\* Lines 368-369: the cluster probe on the detached code with alpha = None,
\* loss += cluster_loss.
ClusterLossStatement ==
    /\ Running("cluster_loss")
    /\ lastAssign' = Assigned("training_step", TrainCodeShape, NoAlpha, FALSE)
    /\ loss' = loss \cup {"cluster_loss"}
    /\ events' = events \o ModuleForward("cluster_probe")
    /\ trainPc' = trainPc + 1
    /\ UNCHANGED <<trainOp, optimizers, params, set_to_none, corr, cd_hist, cd_log,
                   steps>>
    /\ UNCHANGED <<n_classes, cluster_probe, linear_probe, cluster_metrics,
                   linear_metrics, resets, lastReset>>
    /\ FrameTrain

\* Line 374.
BackwardStatement ==
    /\ Running("backward")
    /\ params' = Backward(params, loss)
    /\ events' = Append(events, Event("training_step", "backward", "", loss))
    /\ trainPc' = trainPc + 1
    /\ UNCHANGED <<trainOp, optimizers, set_to_none, loss, corr, cd_hist, cd_log, steps>>
    /\ UNCHANGED stegoVars
    /\ FrameTrain

\* Lines 375-377.
StepStatement ==
    /\ Running("step")
    /\ LET target == Statement(trainPc).target
       IN  /\ params' = AdamStep(params, optimizers[target])
           /\ optimizers' = [optimizers EXCEPT ![target] = AdamMoments(params, @)]
           /\ events' = Append(events, Event("training_step", "step", target, {}))
    /\ trainPc' = trainPc + 1
    /\ UNCHANGED <<trainOp, set_to_none, loss, corr, cd_hist, cd_log, steps>>
    /\ UNCHANGED stegoVars
    /\ FrameTrain

\* Line 379: the locals end with the call.
ReturnStatement ==
    /\ Running("return")
    /\ trainOp' = "idle"
    /\ trainPc' = 0
    /\ loss' = {}
    /\ corr' = NoCorr
    /\ UNCHANGED <<optimizers, params, set_to_none, events, cd_hist, cd_log, steps>>
    /\ UNCHANGED stegoVars
    /\ FrameTrain

\* validation_epoch_end, lines 413-427: the metrics are reset, the images
\* logged, and the histogram divided by its sum.
ValidationEpochEndNormalize ==
    /\ trainOp = "idle"
    /\ trainOp' = "validation_epoch_end"
    /\ cd_hist' = Normalize(cd_hist)
    /\ UNCHANGED <<trainPc, optimizers, params, set_to_none, loss, corr, events,
                   cd_log, steps>>
    /\ UNCHANGED stegoVars
    /\ FrameTrain

\* validation_epoch_end, lines 428-441: the histogram is plotted and logged,
\* then replaced by zeros.
ValidationEpochEndZero ==
    /\ trainOp = "validation_epoch_end"
    /\ trainOp' = "idle"
    /\ cd_hist' = ZeroHist
    /\ cd_log' = <<>>
    /\ UNCHANGED <<trainPc, optimizers, params, set_to_none, loss, corr, events, steps>>
    /\ UNCHANGED stegoVars
    /\ FrameTrain

NextTrain ==
    \/ ConfigureOptimizers
    \/ \E args \in ResetArgs : ResetBetweenSteps(args[1], args[2])
    \/ TrainingStepBegin
    \/ ZeroGradStatement
    \/ ForwardStatement
    \/ CorrLossStatement
    \/ HistcStatement
    \/ WeightedSumStatement
    \/ LinearLossStatement
    \/ ClusterLossStatement
    \/ BackwardStatement
    \/ StepStatement
    \/ ReturnStatement
    \/ ValidationEpochEndNormalize
    \/ ValidationEpochEndZero

-----------------------------------------------------------------------------
(***************************************************************************)
(* get_backbone, Dinov2ViT.__init__ and DinoViT.__init__                   *)
(***************************************************************************)
BackboneNames == {"dino", "dinov2", "resnet"}
TypeNames == {"vit_tiny", "vit_small", "vit_base", "vit_huge"}
PatchSizes == {8, 14, 16}
WeightPaths == {"None", "weights.pth"}

Cfgs == [backbone : BackboneNames, backbone_type : TypeNames,
         patch_size : PatchSizes, pretrained_weights : WeightPaths]

\* vits.__dict__ (stego/backbones/dino/vision_transformer.py): it holds the
\* two names the constructor goes on to accept, and any of the others.
VitsDicts == {d \in SUBSET TypeNames : {"vit_small", "vit_base"} \subseteq d}

NoModel == [built |-> FALSE, by |-> "none", type |-> "none", patch_size |-> 0]
NoError == [type |-> "none", at |-> "none", names |-> {}]

InitBackbone ==
    /\ backbonePc = "get_backbone"
    /\ backbone_cfg \in Cfgs
    /\ vits \in VitsDicts
    /\ model = NoModel
    /\ weights = "none"
    /\ n_feats = 0
    /\ raised = NoError

IdleBackbone ==
    /\ backbonePc = "idle"
    /\ backbone_cfg = None
    /\ vits = {}
    /\ model = None
    /\ weights = None
    /\ n_feats = 0
    /\ raised = None

\* Lines 16-21.
GetBackbone ==
    /\ backbonePc = "get_backbone"
    /\ IF backbone_cfg.backbone = "dino"
       THEN backbonePc' = "DinoViT" /\ UNCHANGED raised
       ELSE IF backbone_cfg.backbone = "dinov2"
       THEN backbonePc' = "Dinov2ViT" /\ UNCHANGED raised
       ELSE /\ backbonePc' = "raised"
            /\ raised' = [type |-> "ValueError", at |-> "get_backbone",
                          names |-> {"backbone"}]
    /\ UNCHANGED <<backbone_cfg, vits, model, weights, n_feats>>
    /\ FrameBackbone

\* Lines 62-72: torch.hub.load builds the model and loads its weights.
Dinov2Load ==
    /\ backbonePc = "Dinov2ViT"
    /\ IF backbone_cfg.backbone_type \in {"vit_small", "vit_base"}
       THEN /\ model' = [built |-> TRUE, by |-> "torch.hub.load",
                         type |-> backbone_cfg.backbone_type, patch_size |-> 14]
            /\ weights' = "facebookresearch/dinov2"
            /\ backbonePc' = "Dinov2ViT_feats"
            /\ UNCHANGED raised
       ELSE /\ backbonePc' = "raised"
            /\ raised' = [type |-> "ValueError", at |-> "Dinov2ViT",
                          names |-> {"backbone_type"}]
            /\ UNCHANGED <<model, weights>>
    /\ UNCHANGED <<backbone_cfg, vits, n_feats>>
    /\ FrameBackbone

\* Lines 74-82.
Dinov2Finish ==
    /\ backbonePc = "Dinov2ViT_feats"
    /\ n_feats' = IF backbone_cfg.backbone_type = "vit_small" THEN 384 ELSE 768
    /\ backbonePc' = "done"
    /\ UNCHANGED <<backbone_cfg, vits, model, weights, raised>>
    /\ FrameBackbone

\* Lines 113-123: the model is looked up in vits.__dict__ by cfg.backbone_type
\* and built with cfg.patch_size; a name vits does not hold is a KeyError.
DinoBuild ==
    /\ backbonePc = "DinoViT"
    /\ IF backbone_cfg.backbone_type \in vits
       THEN /\ model' = [built |-> TRUE, by |-> "vits", type |-> backbone_cfg.backbone_type,
                         patch_size |-> backbone_cfg.patch_size]
            /\ backbonePc' = "DinoViT_url"
            /\ UNCHANGED raised
       ELSE /\ backbonePc' = "raised"
            /\ raised' = [type |-> "KeyError", at |-> "DinoViT",
                          names |-> {"backbone_type"}]
            /\ UNCHANGED model
    /\ UNCHANGED <<backbone_cfg, vits, weights, n_feats>>
    /\ FrameBackbone

\* Lines 125-134.
DinoSelectUrl ==
    /\ backbonePc = "DinoViT_url"
    /\ IF backbone_cfg.backbone_type \in {"vit_small", "vit_base"} /\ backbone_cfg.patch_size \in {16, 8}
       THEN backbonePc' = "DinoViT_weights" /\ UNCHANGED raised
       ELSE /\ backbonePc' = "raised"
            /\ raised' = [type |-> "ValueError", at |-> "DinoViT",
                          names |-> {"backbone_type", "patch_size"}]
    /\ UNCHANGED <<backbone_cfg, vits, model, weights, n_feats>>
    /\ FrameBackbone

\* Lines 136-152.
DinoLoadWeights ==
    /\ backbonePc = "DinoViT_weights"
    /\ weights' = IF backbone_cfg.pretrained_weights # "None"
                  THEN backbone_cfg.pretrained_weights
                  ELSE "dl.fbaipublicfiles.com/dino"
    /\ n_feats' = IF backbone_cfg.backbone_type = "vit_small" THEN 384 ELSE 768
    /\ backbonePc' = "done"
    /\ UNCHANGED <<backbone_cfg, vits, model, raised>>
    /\ FrameBackbone

NextBackbone ==
    \/ GetBackbone
    \/ Dinov2Load
    \/ Dinov2Finish
    \/ DinoBuild
    \/ DinoSelectUrl
    \/ DinoLoadWeights

-----------------------------------------------------------------------------
(***************************************************************************)
(* STEGO.postprocess_crf and CRF.dense_crf                                 *)
(*                                                                         *)
(* Tensors are kept by their shapes; the marginals Q that the inference of *)
(* pydensecrf returns are any values, one per class and pixel.             *)
(***************************************************************************)

\* Tensor.squeeze(): every axis of size 1 is removed.
Squeeze(shape) == SelectSeq(shape, LAMBDA d : d # 1)

\* The values of one marginal.
QValues == {0, 1}

\* argmax over axis 0 of one pixel's marginals: the first maximal class,
\* counted from 0.
ArgMax0(q) ==
    (CHOOSE k \in 1..Len(q) :
        /\ \A j \in 1..Len(q) : q[j] <= q[k]
        /\ \A j \in 1..(k - 1) : q[j] < q[k]) - 1

\* Lines 157-167: the shape of output_probs for an image of shape <<3, H, W>>
\* and logits of shape <<c, h, w>>.
OutputProbsShape(image_shape, logits_shape) ==
    Squeeze(<<1, logits_shape[1], image_shape[2], image_shape[3]>>)

InitCrf ==
    /\ crfPc = "loop"
    /\ \E B \in 0..MaxCrfBatch, H \in 1..MaxCrfSide, W \in 1..MaxCrfSide,
          c \in 1..MaxCrfClasses, h \in 1..MaxCrfSide :
          /\ img_shape = <<B, 3, H, W>>
          /\ probs_shape = <<B, c, h, h>>
    /\ crf_max_iter \in 1..MaxIter
    /\ crfJ = 0
    /\ pred = <<>>
    /\ inferences = <<>>

IdleCrf ==
    /\ crfPc = "idle"
    /\ img_shape = <<>>
    /\ probs_shape = <<>>
    /\ crf_max_iter = 0
    /\ crfJ = 0
    /\ pred = <<>>
    /\ inferences = <<>>

\* Lines 267-270 with dense_crf (lines 156-179) run to its end: one image.
DenseCrfImage ==
    /\ crfPc = "loop"
    /\ crfJ < img_shape[1]
    /\ LET sq == OutputProbsShape(Tail(img_shape), Tail(probs_shape)) IN
       /\ Len(sq) = 3
       /\ LET c == sq[1]
              h == sq[2]
              w == sq[3]
          IN  \E Q \in [1..(h * w) -> [1..c -> QValues]] :
                 pred' = Append(pred, [px \in 1..(h * w) |-> ArgMax0(Q[px])])
    /\ inferences' = Append(inferences, crf_max_iter)
    /\ crfJ' = crfJ + 1
    /\ UNCHANGED <<crfPc, img_shape, probs_shape, crf_max_iter>>
    /\ FrameCrf

\* Lines 165-167 when squeeze() has left fewer than three axes:
\* output_probs.shape[1] or output_probs.shape[2] is an IndexError.
DenseCrfRaises ==
    /\ crfPc = "loop"
    /\ crfJ < img_shape[1]
    /\ Len(OutputProbsShape(Tail(img_shape), Tail(probs_shape))) < 3
    /\ crfPc' = "raised"
    /\ UNCHANGED <<img_shape, probs_shape, crf_max_iter, crfJ, pred, inferences>>
    /\ FrameCrf

\* Line 271.
ReturnPred ==
    /\ crfPc = "loop"
    /\ crfJ = img_shape[1]
    /\ crfPc' = "done"
    /\ UNCHANGED <<img_shape, probs_shape, crf_max_iter, crfJ, pred, inferences>>
    /\ FrameCrf

NextCrf ==
    \/ DenseCrfImage
    \/ DenseCrfRaises
    \/ ReturnPred

-----------------------------------------------------------------------------
(***************************************************************************)
(* The specifications                                                      *)
(***************************************************************************)
vars == <<lossVars, helperVars, lookupVars, stegoVars, trainVars, backboneVars,
          crfVars>>

InitSpecLoss ==
    InitLoss /\ IdleHelper /\ IdleLookup /\ IdleStego /\ IdleTrain
    /\ IdleBackbone /\ IdleCrf

InitSpecHelper ==
    InitHelper /\ IdleLoss /\ IdleLookup /\ IdleStego /\ IdleTrain
    /\ IdleBackbone /\ IdleCrf

InitSpecCluster ==
    InitLookup /\ IdleLoss /\ IdleHelper /\ IdleStego /\ IdleTrain
    /\ IdleBackbone /\ IdleCrf

InitSpecStego ==
    InitStego /\ IdleLoss /\ IdleHelper /\ IdleLookup /\ IdleTrain
    /\ IdleBackbone /\ IdleCrf

InitSpecTrain ==
    InitStego /\ cluster_probe.n_classes = MaxClasses /\ InitTrain /\ IdleLoss /\ IdleHelper /\ IdleLookup
    /\ IdleBackbone /\ IdleCrf

InitSpecBackbone ==
    InitBackbone /\ IdleLoss /\ IdleHelper /\ IdleLookup /\ IdleStego /\ IdleCrf
    /\ IdleTrain

InitSpecCrf ==
    InitCrf /\ IdleLoss /\ IdleHelper /\ IdleLookup /\ IdleStego /\ IdleTrain
    /\ IdleBackbone

SpecLoss == InitSpecLoss /\ [][NextLoss]_vars

SpecHelper == InitSpecHelper /\ [][NextHelper]_vars

SpecCluster == InitSpecCluster /\ [][NextLookup]_vars

SpecStego == InitSpecStego /\ [][NextStego]_vars

SpecTrain == InitSpecTrain /\ [][NextTrain]_vars

SpecBackbone == InitSpecBackbone /\ [][NextBackbone]_vars

SpecCrf == InitSpecCrf /\ [][NextCrf]_vars

-----------------------------------------------------------------------------
(***************************************************************************)
(* Properties of ContrastiveCorrelationLoss.forward (SpecLoss)             *)
(***************************************************************************)

\* Every helper call made so far by this forward call.
IntraCalled == lossPc \in {"intra", "loop", "done", "raised"}

InterCalled == lossPc \in {"loop", "done", "raised"}

HelperCalls ==
    (IF IntraCalled THEN {pos_intra} ELSE {})
        \cup (IF InterCalled THEN {pos_inter} ELSE {})
        \cup {neg_calls[k].call : k \in 1..Len(neg_calls)}

\* The code map that belongs to a feature map.
CodeMapOf(name) == IF name = "orig_feats" THEN "orig_code" ELSE "orig_code_pos"

\* C1: for a batch of N >= 2 images, every index vector perm_neg drawn by
\* forward has perm_neg[i] # i for all i in 0..N-1, and the negative partner
\* gathered for image i (features and code) is an image other than i.
C1_NoSelfNegative ==
    batch >= 2 =>
        \A k \in 1..Len(neg_calls) :
            \A i \in 0..(batch - 1) :
                /\ neg_calls[k].perm[i] # i
                /\ neg_calls[k].call.f1[i + 1].img = i
                /\ neg_calls[k].call.f2[i + 1].img # i
                /\ neg_calls[k].call.c2[i + 1].img # i

C1_Witness ==
    /\ lossPc = "done"
    /\ batch = 3
    /\ Len(neg_calls) = 2
    /\ neg_calls[1].perm # neg_calls[2].perm

\* C2: for a batch of N >= 2 images, every perm_neg is a permutation of
\* 0..N-1, and every image of the batch is the negative partner of exactly one
\* anchor image, in the gathered features and in the gathered code.
C2_NegativeIsPermutation ==
    batch >= 2 =>
        \A k \in 1..Len(neg_calls) :
            LET c == neg_calls[k] IN
            /\ DOMAIN c.perm = 0..(batch - 1)
            /\ \A j \in 0..(batch - 1) :
                /\ Cardinality({i \in 0..(batch - 1) : c.perm[i] = j}) = 1
                /\ Cardinality({b \in 1..batch : c.call.f2[b].img = j}) = 1
                /\ Cardinality({b \in 1..batch : c.call.c2[b].img = j}) = 1

C2_Witness ==
    /\ batch = 3
    /\ Len(neg_calls) >= 1
    /\ neg_calls[1].perm = [i \in 0..2 |-> (i + 1) % 3]
    /\ neg_calls[1].call.f2[1].img = 1

\* C7: in every helper call, entry b of the feature argument and entry b of
\* the code argument were read at the same coordinate set of the same image,
\* the features from a feature map and the code from the code map that belongs
\* to it; this holds for the first and for the second argument pair.
C7_SameCoordsForFeatAndCode ==
    \A h \in HelperCalls :
        \A b \in 1..batch :
            /\ h.f1[b].at = h.c1[b].at
            /\ h.f1[b].img = h.c1[b].img
            /\ h.c1[b].map = CodeMapOf(h.f1[b].map)
            /\ h.f2[b].at = h.c2[b].at
            /\ h.f2[b].img = h.c2[b].img
            /\ h.c2[b].map = CodeMapOf(h.f2[b].map)

C7_Witness ==
    /\ lossPc = "done"
    /\ Cardinality(HelperCalls) >= 3
    /\ \E b \in 1..batch : coords1[b] # coords2[b]

\* C8 as claimed: the second argument pair of the intra-positive call is the
\* anchor map read at the second coordinate draw.
C8_IntraTwoCoordSets ==
    IntraCalled =>
        /\ pos_intra.f1 = Sample(orig_feats, coords1)
        /\ pos_intra.c1 = Sample(orig_code, coords1)
        /\ pos_intra.f2 = Sample(orig_feats, coords2)
        /\ pos_intra.c2 = Sample(orig_code, coords2)

\* C8, amended: both argument pairs of the intra-positive call are one and the
\* same sample of the anchor map, read at the first coordinate draw.
C8_IntraSameCoordSet ==
    IntraCalled =>
        /\ pos_intra.f1 = Sample(orig_feats, coords1)
        /\ pos_intra.f2 = pos_intra.f1
        /\ pos_intra.c1 = Sample(orig_code, coords1)
        /\ pos_intra.c2 = pos_intra.c1

C8_Witness ==
    /\ IntraCalled
    /\ \E b \in 1..batch : coords1[b] # coords2[b]

\* C9: when forward returns with K = neg_samples >= 1 and batch size N,
\* super_perm was invoked exactly K times, the features and the code of each
\* negative sample were gathered with that sample's perm_neg, and the returned
\* negative loss and cd tensors have batch length K*N and hold the K helper
\* results in order.
C9_NegativesConcatenated ==
    lossPc = "done" =>
        /\ neg_samples >= 1
        /\ permCalls = neg_samples
        /\ Len(neg_calls) = neg_samples
        /\ Len(ret.neg_inter_loss) = neg_samples * batch
        /\ Len(ret.neg_inter_cd) = neg_samples * batch
        /\ \A k \in 1..neg_samples :
              \A b \in 1..batch :
                 /\ neg_calls[k].call.f2[b].img = neg_calls[k].perm[b - 1]
                 /\ neg_calls[k].call.c2[b].img = neg_calls[k].perm[b - 1]
                 /\ neg_calls[k].call.shift = "neg_inter_shift"
                 /\ ret.neg_inter_loss[(k - 1) * batch + b]
                        = neg_calls[k].call.loss[b]
                 /\ ret.neg_inter_cd[(k - 1) * batch + b]
                        = neg_calls[k].call.cd[b]

C9_Witness ==
    /\ lossPc = "done"
    /\ neg_samples = 2
    /\ batch = 3
    /\ neg_calls[1].perm # neg_calls[2].perm

-----------------------------------------------------------------------------
(***************************************************************************)
(* Properties of ContrastiveCorrelationLoss.helper (SpecHelper)            *)
(***************************************************************************)

\* C6: every entry of the loss helper returns is -(clamp(cd)) * (fd - shift),
\* where clamp bounds cd below by 0.0 under zero_clamp and by -9999
\* otherwise, and above by 0.8 only under stabalize (fd being the feature
\* correlation after the optional pointwise centring); the second value
\* returned is cd as it was, unclamped.
C6_HelperLossFormula ==
    helperPc = "returned" =>
        /\ helperOut.cd = helperIn.cd
        /\ \A r \in Rows : \A c \in Cols :
              LET cd == helperIn.cd[r][c]
                  lo == IF helperCfg.zero_clamp THEN 0 ELSE -99990
                  below == IF cd < lo THEN lo ELSE cd
                  clamped == IF helperCfg.stabalize /\ below > 8 THEN 8 ELSE below
                  fd == FdUsed(helperCfg, helperIn.fd)[r][c]
              IN  helperOut.loss[r][c]
                      = (0 - clamped) * (fd - NumEntries * helperIn.shift)

C6_Witness ==
    /\ helperPc = "returned"
    /\ helperCfg.zero_clamp
    /\ helperCfg.stabalize
    /\ helperIn.shift = 3
    /\ helperIn.cd[1][1] = -6
    /\ helperIn.cd[1][2] = 9
    /\ helperIn.cd[2][1] = 4
    /\ helperOut.loss[1][1] = 0
    /\ helperOut.loss[1][2] # 0

-----------------------------------------------------------------------------
(***************************************************************************)
(* Properties of ClusterLookup.forward (SpecCluster)                       *)
(***************************************************************************)

\* u and v are non-zero and point the same way.
SameDirection(u, v) ==
    /\ u[1] * v[2] = u[2] * v[1]
    /\ Dot(u, v) > 0

\* The cosine similarity of x and p is at most that of x and q; a zero vector
\* has similarity 0 with everything.
CosineAtMost(x, p, q) ==
    LET a == IF NormSq(x) = 0 \/ NormSq(p) = 0 THEN <<0, 1>>
             ELSE <<Dot(x, p), NormSq(p)>>
        b == IF NormSq(x) = 0 \/ NormSq(q) = 0 THEN <<0, 1>>
             ELSE <<Dot(x, q), NormSq(q)>>
    IN  IF a[1] <= 0 /\ b[1] >= 0 THEN TRUE
        ELSE IF a[1] >= 0 /\ b[1] <= 0 THEN a[1] = 0 /\ b[1] = 0
        ELSE IF a[1] > 0 THEN a[1] * a[1] * b[2] <= b[1] * b[1] * a[2]
        ELSE a[1] * a[1] * b[2] >= b[1] * b[1] * a[2]

\* C4: with alpha = None, forward returns for every pixel a vector over the
\* prototypes with exactly one entry 1 and all others 0; the entry 1 is at a
\* prototype whose cosine similarity with the pixel's code is maximal; and a
\* pixel whose (non-zero) code equals prototype k, no other prototype having
\* that direction, is assigned class k.
C4_HardAssignmentOneHot ==
    (lookupPc = "returned" /\ lookupIn.alpha = NoAlpha) =>
        /\ lookupOut.kind = "loss_and_probs"
        /\ Len(lookupOut.cluster_probs) = Len(lookupIn.x)
        /\ \A px \in 1..Len(lookupIn.x) :
              LET row == lookupOut.cluster_probs[px]
                  x == lookupIn.x[px]
              IN  /\ Len(row) = Len(clusters)
                  /\ \A n \in 1..Len(row) : row[n] \in {0, 1}
                  /\ Cardinality({n \in 1..Len(row) : row[n] = 1}) = 1
                  /\ \A n \in 1..Len(row) :
                        row[n] = 1 =>
                            \A m \in 1..Len(clusters) :
                                CosineAtMost(x, clusters[m], clusters[n])
                  /\ \A k \in 1..Len(clusters) :
                        (/\ x = clusters[k]
                         /\ NormSq(x) > 0
                         /\ \A m \in 1..Len(clusters) :
                               m # k => ~SameDirection(clusters[m], x))
                            => row[k] = 1

C4_Witness ==
    /\ lookupPc = "returned"
    /\ lookupIn.alpha = NoAlpha
    /\ clusters = <<(<<2, 1>>), (<<1, 0>>), (<<0, 1>>)>>
    /\ lookupIn.x = <<(<<1, 0>>), (<<0, 1>>)>>
    /\ lookupOut.cluster_probs = <<(<<0, 1, 0>>), (<<0, 0, 1>>)>>

-----------------------------------------------------------------------------
(***************************************************************************)
(* Properties of STEGO (SpecStego)                                         *)
(***************************************************************************)

\* C3: once reset_clusters(n_classes, extra_clusters) has been called, the
\* cluster probe holds exactly n_classes + extra_clusters prototypes in every
\* later state up to the next reset (training_step and validation_step leave
\* the count alone), and every call of the cluster probe made since that
\* reset, hard or soft, returned a map with that many channels and with the
\* batch and spatial size of its input.
C3_ResetFixesPrototypeCount ==
    resets > 0 =>
        LET count == lastReset.n_classes + lastReset.extra_clusters IN
        /\ cluster_probe.clusters_shape[1] = count
        /\ cluster_probe.n_classes = count
        /\ (lastAssign.resets = resets /\ lastAssign.out.kind # "none") =>
              /\ lastAssign.out.kind \in {"loss_and_probs", "log_probs"}
              /\ lastAssign.out.shape
                    = <<lastAssign.x_shape[1], count,
                        lastAssign.x_shape[3], lastAssign.x_shape[4]>>

C3_Witness ==
    /\ resets = 2
    /\ lastReset = [n_classes |-> 2, extra_clusters |-> 1]
    /\ cluster_metrics.n_classes = 2
    /\ lastAssign.resets = 2
    /\ lastAssign.by = "validation_step"
    /\ lastAssign.out.shape[2] = 3

-----------------------------------------------------------------------------
(***************************************************************************)
(* Properties of the backbone constructors (SpecBackbone)                  *)
(***************************************************************************)

\* The configurations that name no backbone the code supports.
InvalidCfg ==
    \/ backbone_cfg.backbone \notin {"dino", "dinov2"}
    \/ backbone_cfg.backbone_type \notin {"vit_small", "vit_base"}
    \/ backbone_cfg.backbone = "dino" /\ backbone_cfg.patch_size \notin {8, 16}

\* C5: with an invalid configuration (unknown backbone name, unsupported
\* variant, unsupported patch size for the variant) construction never builds
\* a model, never loads weights and never completes, and when it ends it ends
\* with a ValueError that names the offending setting.
C5_InvalidConfigFailsFast ==
    InvalidCfg =>
        /\ ~model.built
        /\ weights = "none"
        /\ n_feats = 0
        /\ backbonePc # "done"
        /\ backbonePc = "raised" => raised.type = "ValueError"

-----------------------------------------------------------------------------
(***************************************************************************)
(* Properties of STEGO.postprocess_crf (SpecCrf)                           *)
(***************************************************************************)

\* C10: postprocess_crf ends, for every batch of images and every probability
\* map with c classes, by returning one label map per image; the inference
\* ran exactly once per image, each time with crf_max_iter iterations; and
\* the label map of an image has one integer in [0, c) per pixel.
C10_CrfReturnsLabels ==
    /\ crfPc # "raised"
    /\ crfPc = "done" =>
          /\ Len(pred) = img_shape[1]
          /\ Len(inferences) = img_shape[1]
          /\ \A j \in 1..Len(inferences) : inferences[j] = crf_max_iter
          /\ \A j \in 1..Len(pred) :
                /\ Len(pred[j]) = img_shape[3] * img_shape[4]
                /\ \A px \in 1..Len(pred[j]) :
                      pred[j][px] \in 0..(probs_shape[2] - 1)

-----------------------------------------------------------------------------
(***************************************************************************)
(* Properties of the optimizers, training_step and validation_epoch_end    *)
(* (SpecTrain)                                                             *)
(***************************************************************************)

\* The optimizers self.optimizers() returns were built before the last
\* reset_clusters call.
Stale == optimizers.configured /\ optimizers.gen # resets

CurrentProbeParams == {ProbeParam("cluster", resets), ProbeParam("linear", resets)}

\* C11: while the optimizers are those an earlier configure_optimizers
\* returned and reset_clusters has been called since, the cluster-probe and
\* linear-probe optimizers hold the parameters of the replaced probes and
\* none of the current ones, and no step of the program (an optimizer step
\* included) changes the value of a parameter of the current cluster probe or
\* of the current linear probe.
C11_StaleOptimizersLeaveCurrentProbes ==
    [][Stale =>
         /\ optimizers.cluster.held = {ProbeParam("cluster", optimizers.gen)}
         /\ optimizers.linear.held = {ProbeParam("linear", optimizers.gen)}
         /\ (optimizers.cluster.held \cup optimizers.linear.held)
                \cap CurrentProbeParams = {}
         /\ \A p \in CurrentProbeParams : params'[p].updates = params[p].updates]_vars

\* A training step that began after the reset has returned with the
\* optimizers still the old ones: its backward pass reached the current
\* probes, its optimizer steps moved a replaced probe and no current one.
C11_Witness ==
    /\ trainOp = "idle"
    /\ Stale
    /\ lastAssign.by = "training_step"
    /\ lastAssign.resets = resets
    /\ \E i \in DOMAIN events : events[i].op = "step" /\ events[i].target = "cluster"
    /\ params[ProbeParam("cluster", optimizers.gen)].updates > 0
    /\ \A p \in CurrentProbeParams : params[p].grad = "set" /\ params[p].updates = 0

OptimizerNames == {"net", "linear", "cluster"}

\* The total loss of line 374: the weighted correlation terms, the linear
\* probe loss and the clustering loss.
TotalLoss == CorrTerms \cup {"linear_loss", "cluster_loss"}

\* The positions in events of the calls of one kind.
Calls(op) == {i \in DOMAIN events : events[i].op = op}

CallsOn(op, target) == {i \in Calls(op) : events[i].target = target}

\* The training_step whose calls events holds has reached its return.
StepComplete ==
    \/ Running("return")
    \/ trainOp # "training_step" /\ events # <<>>

\* C12: in every training_step, before any forward pass each of the three
\* optimizers has had its gradients zeroed; backward is called at most once
\* while the step runs and exactly once by its end, on the total loss (the
\* three weighted correlation terms plus the linear-probe loss plus the
\* clustering loss); each optimizer steps at most once, only after that
\* backward call, and exactly once by the end of the step; and no call made
\* by the loss module or the cluster module is a backward call or an
\* optimizer step.
C12_TrainingStepOrder ==
    /\ \A i \in Calls("forward") : \A o \in OptimizerNames :
          \E j \in CallsOn("zero_grad", o) : j < i
    /\ Cardinality(Calls("backward")) <= 1
    /\ \A i \in Calls("backward") : events[i].on = TotalLoss
    /\ \A o \in OptimizerNames :
          /\ Cardinality(CallsOn("step", o)) <= 1
          /\ \A i \in CallsOn("step", o) : \E j \in Calls("backward") : j < i
    /\ \A i \in DOMAIN events :
          events[i].by # "training_step" => events[i].op \notin {"backward", "step"}
    /\ StepComplete =>
          /\ Cardinality(Calls("backward")) = 1
          /\ \A o \in OptimizerNames : Cardinality(CallsOn("step", o)) = 1

\* A training_step has returned: it zeroed, ran the network, the loss module
\* and the cluster module forward, called backward and stepped.
C12_Witness ==
    /\ trainOp = "idle"
    /\ steps = MaxSteps
    /\ \E i \in Calls("forward") : events[i].by = "contrastive_corr_loss_fn"
    /\ \E i \in Calls("forward") : events[i].by = "cluster_probe"
    /\ \E i \in Calls("backward") : \A o \in OptimizerNames :
          \E j \in CallsOn("step", o) : i < j

\* The sum of the three histograms of every training_step in log.
RECURSIVE HistogramsOf(_)
HistogramsOf(log) ==
    IF log = <<>>
    THEN [b \in 0..(Bins - 1) |-> 0]
    ELSE LET cds == log[Len(log)]
         IN  Add(HistogramsOf(SubSeq(log, 1, Len(log) - 1)),
                 Add(Add(Histc(cds.pos_intra_cd), Histc(cds.pos_inter_cd)),
                     Histc(cds.neg_inter_cd)))

\* C13: outside validation_epoch_end, cd_hist is the sum of the histograms
\* of the intra-positive, inter-positive and inter-negative correlation values
\* of every training_step since the last checkpoint (construction or the
\* last validation_epoch_end), and is all zeros when there was none: at
\* construction and right after validation_epoch_end.  As configure_optimizers,
\* reset_clusters and the other statements of training_step leave the list of
\* those steps alone, they cannot change cd_hist either.
C13_HistogramAccumulates ==
    trainOp # "validation_epoch_end" =>
        /\ cd_hist = [counts |-> HistogramsOf(cd_log), over |-> 1]
        /\ cd_log = <<>> => cd_hist = ZeroHist

\* Two training steps have run, one of them since the last
\* validation_epoch_end, and the histogram holds counts.
C13_Witness ==
    /\ trainOp = "idle"
    /\ steps = 2
    /\ Len(cd_log) = 1
    /\ cd_hist.counts[Bins - 1] > 0
    /\ cd_hist # ZeroHist

=============================================================================
